---- MODULE Spec2Model ----
(***************************************************************************)
(* tool/adder_derivation.py: derivation of the carry expressions of a      *)
(* 32-bit ripple-carry adder.  The script creates the symbols p[i] and     *)
(* s[i], builds c[i] = Or(p[i], And(s[i], c[i-1])), and prints to_dnf of   *)
(* every c[i] as a Verilog assign statement.                               *)
(*                                                                         *)
(* Expressions are the trees the algebra library builds: a Symbol carries  *)
(* its name, And/Or carry the set of their arguments (the library keeps    *)
(* the arguments of And/Or as a set, flattens a nested occurrence of the   *)
(* same operator and returns the single argument when only one is left).   *)
(* Lists are sequences, read through At with the script's 0-based indices.*)
(* The bit width is the definition N, and the words a and b are the values *)
(* of the wires that the symbol names mention.                             *)
(***************************************************************************)
EXTENDS Integers, Sequences, FiniteSets, TLC

VARIABLES p, s, c, out, i, pc, a, b

vars == <<p, s, c, out, i, pc, a, b>>

\* The bit width, the 32 of range(32) in every loop of the script, bounded
\* here: the expression trees are 2 * N levels deep.
N == 8

\* The input words a and b under which the printed expressions are read:
\* the low MaxLow bits are arbitrary, the remaining high bits are all 0 or
\* all 1, so that carries are generated, propagated and killed along the
\* whole chain.
MaxLow == 4

Words == { low \cup high : low \in SUBSET (0 .. MaxLow - 1),
                           high \in { {}, MaxLow .. N - 1 } }

-----------------------------------------------------------------------------
(* Python lists: sequences read with the script's 0-based indices *)

Indices(f) == 0 .. Len(f) - 1

At(f, k) == f[k + 1]

-----------------------------------------------------------------------------
(* The expression constructors *)

\* Symbol(f"(a[{j}] & b[{j}])") and Symbol(f"(a[{j}] | b[{j}])"): the name is
\* the text of a Verilog sub-expression over bit j of a and bit j of b.
Symbol(name) == [op |-> "sym", name |-> name, args |-> {}]

PName(j) == <<"(", "a", j, "&", "b", j, ")">>

SName(j) == <<"(", "a", j, "|", "b", j, ")">>

\* The argument set of op(*S): arguments that are themselves an op are
\* replaced by their arguments, duplicates collapse.
Flatten(op, S) == UNION { IF x.op = op THEN x.args ELSE {x} : x \in S }

\* New without the flattening of nested arguments.
NewNoFlatten(op, S) ==
    CHOOSE r \in { IF Cardinality(A) = 1
                   THEN CHOOSE x \in A : TRUE
                   ELSE [op |-> op, name |-> <<>>, args |-> A]
                   : A \in { S } } : TRUE

\* And(*S) / Or(*S) over symbols and And/Or trees (no constants, no Not).
\* A is the flattened argument set, bound once.
New(op, S) ==
    CHOOSE r \in { IF Cardinality(A) = 1
                   THEN CHOOSE x \in A : TRUE
                   ELSE [op |-> op, name |-> <<>>, args |-> A]
                   : A \in { Flatten(op, S) } } : TRUE

And(x, y) == New("and", {x, y})

Or(x, y) == New("or", {x, y})

-----------------------------------------------------------------------------
(* to_dnf *)

is_literal(e) == e.op = "sym"

\* is_dnf that does not look inside the Ands.
is_dnf_shallow(e) ==
    LET vals == IF e.op = "or" THEN e.args ELSE {e}
    IN  \A lit \in vals : lit.op = "and" \/ is_literal(lit)

\* is_dnf: an Or (or a single term) whose terms are literals or Ands of
\* literals.
is_dnf(e) ==
    LET vals == IF e.op = "or" THEN e.args ELSE {e}
    IN  \A lit \in vals :
            IF lit.op = "and"
            THEN \A l \in lit.args : is_literal(l)
            ELSE is_literal(lit)

\* is_nnf (simplified=False): every node is an And, an Or or a literal.
RECURSIVE is_nnf(_)
is_nnf(e) ==
    \/ is_literal(e)
    \/ e.op \in {"and", "or"} /\ \A x \in e.args : is_nnf(x)

\* eliminate_implications: to_nnf(expr, simplify=False) returns expr itself
\* when is_nnf(expr); otherwise literals are kept and an And/Or is rebuilt
\* from its converted arguments (there is no Not, Implies, Equivalent or Xor
\* in the trees the script builds).
RECURSIVE to_nnf(_)
to_nnf(e) ==
    IF is_literal(e)
    THEN e
    ELSE New(e.op, { to_nnf(x) : x \in e.args })

eliminate_implications(e) == IF is_nnf(e) THEN e ELSE to_nnf(e)

RECURSIVE distribute_or_over_and(_)
\* distribute_or_over_and that forgets the rest of the And.
distribute_dropping_rest(info) ==
    CHOOSE r \in {
        IF e.op = "and"
        THEN LET ors == { x \in e.args : x.op = "or" }
             IN  IF ors = {}
                 THEN e
                 ELSE LET conj == CHOOSE x \in ors : TRUE
                      IN  CHOOSE q \in { New("or", D) : D \in {
                              { distribute_or_over_and(cl) : cl \in conj.args } } } : TRUE
        ELSE IF e.op = "or"
        THEN CHOOSE q \in { New("or", D) : D \in {
                 { distribute_or_over_and(x) : x \in e.args } } } : TRUE
        ELSE e
        : e \in { info } } : TRUE

\* distribute_or_over_and: an And with an Or argument conj becomes the Or of
\* the distributed And(cl, rest) for every cl of conj; an Or distributes its
\* arguments; anything else is returned as it is.  e is the value of the
\* argument and D the set of distributed arguments, each bound once before
\* it is used.
distribute_or_over_and(info) ==
    CHOOSE r \in {
        IF e.op = "and"
        THEN LET ors == { x \in e.args : x.op = "or" }
             IN  IF ors = {}
                 THEN e
                 ELSE LET conj == CHOOSE x \in ors : TRUE
                          rest == New("and", e.args \ {conj})
                      IN  CHOOSE q \in { New("or", D) : D \in {
                              { distribute_or_over_and(New("and", {cl, rest}))
                                  : cl \in conj.args } } } : TRUE
        ELSE IF e.op = "or"
        THEN CHOOSE q \in { New("or", D) : D \in {
                 { distribute_or_over_and(x) : x \in e.args } } } : TRUE
        ELSE e
        : e \in { info } } : TRUE

to_dnf(e) ==
    IF is_literal(e) THEN e
    ELSE IF is_dnf(e) THEN e
    ELSE distribute_or_over_and(eliminate_implications(e))

\* f"    assign c[{k}] = {dnf};"
Line(k, dnf) == <<"    assign c[", k, "] = ", dnf, ";">>

LineIndex(ln) == ln[2]

LineExpr(ln) == ln[4]

-----------------------------------------------------------------------------
(* The script, statement by statement *)

Init ==
    /\ p = <<>>
    /\ s = <<>>
    /\ c = <<>>
    /\ out = <<>>
    /\ i = 0
    /\ pc = "p"
    /\ a \in Words
    /\ b \in Words

\* p = [Symbol(f"(a[{i}] & b[{i}])") for i in range(32)]
DefineP ==
    /\ pc = "p"
    /\ p' = [j \in 1 .. N |-> Symbol(PName(j - 1))]
    /\ pc' = "s"
    /\ UNCHANGED <<s, c, out, i, a, b>>

\* s = [Symbol(f"(a[{i}] | b[{i}])") for i in range(32)]
DefineS ==
    /\ pc = "s"
    /\ s' = [j \in 1 .. N |-> Symbol(SName(j - 1))]
    /\ pc' = "c"
    /\ UNCHANGED <<p, c, out, i, a, b>>

\* c = [At(s, 0)]
InitCSumOr ==
    /\ pc = "c"
    /\ c' = Append(<<>>, At(s, 0))
    /\ i' = 1
    /\ pc' = "build"
    /\ UNCHANGED <<p, s, out, a, b>>

\* c = [At(p, 0)]
InitC ==
    /\ pc = "c"
    /\ c' = Append(<<>>, At(p, 0))
    /\ i' = 1
    /\ pc' = "build"
    /\ UNCHANGED <<p, s, out, a, b>>

\* The builder step with s[i - 1] in place of s[i].
BuildStepPrevS ==
    /\ pc = "build"
    /\ i < N
    /\ c' = Append(c, Or(At(p, i), And(At(s, i - 1), At(c, i - 1))))
    /\ i' = i + 1
    /\ UNCHANGED <<p, s, out, pc, a, b>>

\* The builder step printing the previous entry as it goes.
BuildStepPrinting ==
    /\ pc = "build"
    /\ i < N
    /\ c' = Append(c, Or(At(p, i), And(At(s, i), At(c, i - 1))))
    /\ out' = Append(out, Line(i - 1, to_dnf(At(c, i - 1))))
    /\ i' = i + 1
    /\ UNCHANGED <<p, s, pc, a, b>>

\* The builder step storing the distributed form back into c[i - 1].
BuildStepInPlace ==
    /\ pc = "build"
    /\ i < N
    /\ c' = Append([c EXCEPT ![i] = distribute_or_over_and(At(c, i - 1))],
                    Or(At(p, i), And(At(s, i), At(c, i - 1))))
    /\ i' = i + 1
    /\ UNCHANGED <<p, s, out, pc, a, b>>

\* for i in range(1, 32): c.append(Or(At(p, i), And(At(s, i), At(c, i - 1))))
BuildStep ==
    /\ pc = "build"
    /\ i < N
    /\ c' = Append(c, Or(At(p, i), And(At(s, i), At(c, i - 1))))
    /\ i' = i + 1
    /\ UNCHANGED <<p, s, out, pc, a, b>>

BuildExit ==
    /\ pc = "build"
    /\ i >= N
    /\ i' = 0
    /\ pc' = "format"
    /\ UNCHANGED <<p, s, c, out, a, b>>

\* The formatter step numbering the lines from 1.
FormatStepOneBased ==
    /\ pc = "format"
    /\ i < N
    /\ out' = Append(out, Line(i + 1, to_dnf(At(c, i))))
    /\ i' = i + 1
    /\ UNCHANGED <<p, s, c, pc, a, b>>

\* for i in range(32): print(f"    assign c[{i}] = {to_dnf(At(c, i))};")
FormatStep ==
    /\ pc = "format"
    /\ i < N
    /\ out' = Append(out, Line(i, to_dnf(At(c, i))))
    /\ i' = i + 1
    /\ UNCHANGED <<p, s, c, pc, a, b>>

\* The formatter loop leaving one index early.
FormatExitEarly ==
    /\ pc = "format"
    /\ i >= N - 1
    /\ pc' = "done"
    /\ UNCHANGED <<p, s, c, out, i, a, b>>

FormatExit ==
    /\ pc = "format"
    /\ i >= N
    /\ pc' = "done"
    /\ UNCHANGED <<p, s, c, out, i, a, b>>

Next ==
    \/ DefineP
    \/ DefineS
    \/ InitC
    \/ BuildStep
    \/ BuildExit
    \/ FormatStep
    \/ FormatExit

Spec == Init /\ [][Next]_vars

\* The script is one sequential thread: a statement that can run does run.
FairSpec == Spec /\ WF_vars(Next)

-----------------------------------------------------------------------------
(* The meaning of an expression under the input words x and y *)

Bit(w, j) == j \in w

\* A symbol's name is the Verilog text "(a[j] & b[k])" or "(a[j] | b[k])".
EvalName(nm, x, y) ==
    IF nm[4] = "&"
    THEN Bit(x, nm[3]) /\ Bit(y, nm[6])
    ELSE Bit(x, nm[3]) \/ Bit(y, nm[6])

RECURSIVE Eval(_, _, _)
Eval(e, x, y) ==
    IF e.op = "sym" THEN EvalName(e.name, x, y)
    ELSE IF e.op = "and" THEN \A t \in e.args : Eval(t, x, y)
    ELSE \E t \in e.args : Eval(t, x, y)

\* The ripple-carry recurrence over the bits of x and y.
RECURSIVE Ripple(_, _, _)
Ripple(k, x, y) ==
    IF k = 0
    THEN Bit(x, 0) /\ Bit(y, 0)
    ELSE (Bit(x, k) /\ Bit(y, k)) \/ ((Bit(x, k) \/ Bit(y, k)) /\ Ripple(k - 1, x, y))

\* The number formed by bits lo..hi of w (bit lo has weight 1).
RECURSIVE Val(_, _, _)
Val(w, lo, hi) ==
    IF hi < lo THEN 0
    ELSE (IF Bit(w, hi) THEN 2 ^ (hi - lo) ELSE 0) + Val(w, lo, hi - 1)

\* (x mod 2^(k+1)) + (y mod 2^(k+1)) >= 2^(k+1)
CarryOut(x, y, k) ==
    (Val(x, 0, N - 1) % 2 ^ (k + 1)) + (Val(y, 0, N - 1) % 2 ^ (k + 1)) >= 2 ^ (k + 1)

RECURSIVE Atoms(_)
Atoms(e) == IF e.op = "sym" THEN {e} ELSE UNION { Atoms(t) : t \in e.args }

Clauses(e) == IF e.op = "or" THEN e.args ELSE {e}

Lits(cl) == IF cl.op = "and" THEN cl.args ELSE {cl}

PSym(j) == Symbol(PName(j))

SSym(j) == Symbol(SName(j))

\* The atomic terms p[j] and s[j].
AtomSet == { PSym(j) : j \in 0 .. N - 1 } \cup { SSym(j) : j \in 0 .. N - 1 }

-----------------------------------------------------------------------------
(* The claims *)

\* C1: for every printed line, the printed expression of c[k] has, under the
\* input words a and b, the value of the ripple-carry recurrence
\* c[0] = a[0] AND b[0], c[k] = (a[k] AND b[k]) OR ((a[k] OR b[k]) AND c[k-1]).
C1_PrintedEquivalentToRecurrence ==
    \A k \in Indices(out) :
        Eval(LineExpr(At(out, k)), a, b) = Ripple(LineIndex(At(out, k)), a, b)

\* All lines are printed, and the top carry is set by a carry that was
\* propagated (not generated) at the top bit.
C1_Witness ==
    /\ Len(out) = N
    /\ Ripple(N - 1, a, b)
    /\ ~ (Bit(a, N - 1) /\ Bit(b, N - 1))

\* C2: every carry expression c[k] is true under a and b exactly when
\* (a mod 2^(k+1)) + (b mod 2^(k+1)) >= 2^(k+1), the carry-out of bit k of
\* a + b with carry-in 0.
C2_CarryOutOfAddition ==
    \A k \in Indices(c) : Eval(At(c, k), a, b) = CarryOut(a, b, k)

\* The chain is complete, bit 0 generates no carry and the top bit carries.
C2_Witness ==
    /\ Len(c) = N
    /\ ~ CarryOut(a, b, 0)
    /\ CarryOut(a, b, N - 1)

\* C3: the k-th line emitted (from 0) is the assignment for c[k]: indices
\* are strictly increasing, none skipped, none repeated.
C3_LinesInIndexOrder ==
    /\ \A k \in Indices(out) : LineIndex(At(out, k)) = k
    /\ \A k, m \in Indices(out) : k < m => LineIndex(At(out, k)) < LineIndex(At(out, m))

C3_Witness == pc = "done" /\ Len(out) = N

\* C4: every run terminates, and a terminated run has emitted exactly N
\* lines, one per bit of the width.
C4_TerminatesWithAllLines ==
    /\ <>(pc = "done")
    /\ [](pc = "done" => Len(out) = N)

C4_Witness == pc = "done" /\ Len(out) = N /\ i = N

\* C5: every printed expression is in disjunctive normal form: an OR of
\* clauses, each clause a conjunction of the atoms p[j] / s[j] only, with no
\* OR beneath an AND.
C5_PrintedInDNF ==
    \A k \in Indices(out) :
        \A cl \in Clauses(LineExpr(At(out, k))) :
            /\ cl.op # "or"
            /\ Lits(cl) \subseteq AtomSet

\* A line whose expression had to be distributed has been printed.
C5_Witness ==
    \E k \in Indices(out) : k >= 2 /\ LineExpr(At(out, k)) # At(c, k)

\* C7: no line is emitted while c has fewer than N entries (the bit width).
C7_BuilderBeforeFormatter ==
    Len(out) > 0 => Len(c) = N

C7_Witness == pc = "format" /\ Len(out) > 0 /\ Len(out) < N

\* C8: at the end of the builder phase, c has exactly N entries and
\* c[k] mentions only the atoms p[0..k] and s[1..k].
C8_BuiltSequenceAtoms ==
    (pc = "format" /\ i = 0) =>
        /\ Len(c) = N
        /\ \A k \in Indices(c) :
            Atoms(At(c, k)) \subseteq
                { At(p, j) : j \in 0 .. k } \cup { At(s, j) : j \in 1 .. k }

\* The builder has just finished and the last entry mentions every allowed
\* atom.
C8_Witness ==
    /\ pc = "format"
    /\ i = 0
    /\ Atoms(At(c, N - 1)) = { At(p, j) : j \in 0 .. N - 1 }
                              \cup { At(s, j) : j \in 1 .. N - 1 }

\* C9: no entry is mutated after creation: a builder step only appends one
\* entry to c, a formatter step leaves c unchanged, and neither changes p or s.
C9_NoEntryMutated ==
    [][ /\ \A k \in Indices(c) : k \in Indices(c') /\ At(c', k) = At(c, k)
        /\ pc = "build" => (p' = p /\ s' = s /\ Len(c') <= Len(c) + 1)
        /\ pc = "format" => (p' = p /\ s' = s /\ c' = c) ]_vars

\* Both phases have made steps.
C9_Witness == pc = "format" /\ i > 1 /\ Len(c) = N /\ Len(out) = i

\* C10: the printed expression of c[k] has exactly k + 1 clauses, one per
\* j in 0..k, clause j being the conjunction of p[j] with s[j+1], ..., s[k].
C10_ClausesOfPrintedCarry ==
    \A k \in Indices(out) :
        LET e == LineExpr(At(out, k))
        IN  /\ Cardinality(Clauses(e)) = k + 1
            /\ { Lits(cl) : cl \in Clauses(e) }
                 = { {PSym(j)} \cup { SSym(m) : m \in j + 1 .. k } : j \in 0 .. k }

C10_Witness ==
    /\ Len(out) = N
    /\ Cardinality(Clauses(LineExpr(At(out, N - 1)))) = N

====
